---- MODULE Spec2Model ----
(***************************************************************************)
(* A model of build.py, the build script of Home Assistant Desktop Remote  *)
(* Control: the helpers run_command, clean_build, check_requirements,      *)
(* build_package, check_package, upload_to_test_pypi, upload_to_pypi and   *)
(* the entry point main.                                                   *)
(*                                                                         *)
(* Python strings that the script transforms (the action, the answer to a  *)
(* confirmation prompt) are sequences of one-character strings, so that    *)
(* str.lower() is computed character by character.  Python values          *)
(* returned by the step functions are the strings "True", "False" and      *)
(* "None".                                                                 *)
(***************************************************************************)
EXTENDS Integers, Sequences, FiniteSets, TLC

VARIABLES
    fs,         \* working directory: name -> kind of the entry (lines 35-41)
    installed,  \* the packages that __import__ finds (line 53)
    failing,    \* the external programs that exit non-zero when run (line 18)
    answer,     \* what the user types at a confirmation prompt (lines 81, 91)
    args,       \* sys.argv[1:] (line 103)
    typed,      \* what the user types at the "Enter action" prompt (line 112)
    cmds,       \* the command lines handed to subprocess.run, in order
    out,        \* what was printed, in order, as <<kind, argument>> pairs
    pc,         \* position of main
    action,     \* main's local variable action
    stepIdx,    \* position of main's loop in the list steps (line 128)
    ret,        \* what the last step function called by main returned
    exc,        \* the exception that ended the last call, "" when none
    exitCode,   \* exit status of the process, -1 while it runs
    ran,        \* the step functions main called, in order
    hist        \* direct calls of the module's functions: one record each

vars == <<fs, installed, failing, answer, args, typed, cmds, out, pc, action,
          stepIdx, ret, exc, exitCode, ran, hist>>

----------------------------------------------------------------------------
(* Bounds of the model *)

\* at most this many direct calls of the module's functions in one behaviour
MaxCalls == 2

----------------------------------------------------------------------------
(* Strings *)

Upper == <<"A","B","C","D","E","F","G","H","I","J","K","L","M",
           "N","O","P","Q","R","S","T","U","V","W","X","Y","Z">>
Lowercase == <<"a","b","c","d","e","f","g","h","i","j","k","l","m",
               "n","o","p","q","r","s","t","u","v","w","x","y","z">>

LowerChar(c) ==
    IF \E i \in DOMAIN Upper : Upper[i] = c
    THEN Lowercase[CHOOSE i \in DOMAIN Upper : Upper[i] = c]
    ELSE c

\* str.lower()
Lower(s) == [i \in DOMAIN s |-> LowerChar(s[i])]

BUILD == <<"b","u","i","l","d">>
TEST_UPLOAD == <<"t","e","s","t","-","u","p","l","o","a","d">>
UPLOAD == <<"u","p","l","o","a","d">>
CLEAN == <<"c","l","e","a","n">>
YES == <<"y">>

\* the command-line arguments tried
ArgStrings ==
    { BUILD, <<"T","e","s","t","-","U","p","l","o","a","d">>, UPLOAD,
      <<"C","L","E","A","N">>, <<>>, <<"d","e","p","l","o","y">>,
      <<"c","l","e","a","n"," ">> }

\* the lines tried at the "Enter action" prompt
TypedStrings == { <<>>, <<"C","l","e","a","n">>, <<"x">> }

\* the lines tried at a confirmation prompt
Answers == { <<"y">>, <<"Y">>, <<"n">>, <<>> }

----------------------------------------------------------------------------
(* The working directory *)

\* "dir" a directory, "file" a regular file, "symdir" a symbolic link to a
\* directory, "fifo" an entry that exists and is neither directory nor file
Kinds == {"absent", "dir", "file", "symdir", "fifo"}

Names == {"build", "dist", "pkg.egg-info", "src"}

\* the order in which scanning the directory lists its entries
NameOrder == <<"build", "dist", "pkg.egg-info", "src">>

EggInfoNames == {"pkg.egg-info"}

\* the states of the working directory tried: src is the source tree
FileSystems == { f \in [Names -> Kinds] : f["src"] = "dir" }

dirs_to_clean == <<"build", "dist", "*.egg-info">>

\* does the glob pattern match the name
Matches(pattern, name) ==
    IF pattern = "*.egg-info" THEN name \in EggInfoNames ELSE name = pattern

\* Path(".").glob(pattern): the existing entries the pattern matches
Glob(pattern, f) ==
    SelectSeq(NameOrder, LAMBDA n : Matches(pattern, n) /\ f[n] # "absent")

\* Path.is_dir() and Path.is_file() follow symbolic links
is_dir(kind) == kind \in {"dir", "symdir"}
is_file(kind) == kind = "file"

----------------------------------------------------------------------------
(* External programs *)

PipInstall == <<"python", "-m", "pip", "install">>
BuildCmd == <<"python", "-m", "build">>
CheckCmd == <<"twine", "check", "dist/*">>
UploadTestCmd == <<"twine", "upload", "--repository", "testpypi", "dist/*">>
UploadCmd == <<"twine", "upload", "dist/*">>

Programs == {PipInstall, BuildCmd, CheckCmd, UploadTestCmd, UploadCmd}

\* the program a command line runs: pip's package arguments do not name it
Program(cmd) ==
    IF Len(cmd) >= 4 /\ SubSeq(cmd, 1, 4) = PipInstall THEN PipInstall ELSE cmd

required_packages == <<"build", "twine">>

\* the state the functions work on
World == [fs |-> fs, cmds |-> cmds, out |-> out, ret |-> "None", exc |-> ""]

Fresh(w) == [w EXCEPT !.ret = "None", !.exc = ""]

----------------------------------------------------------------------------
(* The helpers, as functions from the state they find to the state they    *)
(* leave: fs, cmds, out, the value returned (ret) and the exception        *)
(* raised (exc, "" when the function returned).                            *)

\* run_command: subprocess.run(check=True) raises CalledProcessError on a
\* non-zero exit status, which is caught and turned into False
run_command(w, cmd, description) ==
    IF Program(cmd) \notin failing
    THEN [w EXCEPT !.cmds = Append(@, cmd),
                   !.out = Append(Append(@, <<"running", description>>),
                                  <<"completed", description>>),
                   !.ret = "True"]
    ELSE [w EXCEPT !.cmds = Append(@, cmd),
                   !.out = Append(Append(@, <<"running", description>>),
                                  <<"failed", description>>),
                   !.ret = "False"]

\* shutil.rmtree refuses a symbolic link: OSError
rmtree(w, p) ==
    IF w.fs[p] = "symdir"
    THEN [w EXCEPT !.exc = "OSError"]
    ELSE [w EXCEPT !.fs[p] = "absent",
                   !.out = Append(@, <<"removed_dir", p>>)]

unlink(w, p) ==
    [w EXCEPT !.fs[p] = "absent", !.out = Append(@, <<"removed_file", p>>)]

\* the body of clean_build's inner loop, without its elif branch
clean_path_dirs_only(w, p) ==
    IF is_dir(w.fs[p]) THEN rmtree(w, p) ELSE w

\* the body of clean_build's inner loop: one path of one pattern
clean_path(w, p) ==
    IF is_dir(w.fs[p]) THEN rmtree(w, p)
    ELSE IF is_file(w.fs[p]) THEN unlink(w, p)
    ELSE w

\* clean_build's inner loop: an exception ends it
RECURSIVE clean_paths(_, _)
clean_paths(w, paths) ==
    IF paths = <<>> \/ w.exc # "" THEN w
    ELSE clean_paths(clean_path(w, Head(paths)), Tail(paths))

\* clean_build's outer loop, from the k-th pattern on
RECURSIVE clean_patterns(_, _)
clean_patterns(w, k) ==
    IF k > Len(dirs_to_clean) \/ w.exc # "" THEN w
    ELSE clean_patterns(clean_paths(w, Glob(dirs_to_clean[k], w.fs)), k + 1)

\* clean_build has no return statement: it returns None
clean_build(w) ==
    clean_patterns([Fresh(w) EXCEPT !.out = Append(@, <<"cleaning", "">>)], 1)

\* check_requirements' first loop: the packages that fail to import
missing_packages == SelectSeq(required_packages, LAMBDA p : p \notin installed)

\* check_requirements that installs although nothing is missing
check_requirements_always(w) ==
    LET w1 == [Fresh(w) EXCEPT !.out = Append(@, <<"checking", "">>)]
        r == run_command(w1, PipInstall \o missing_packages,
                         "Installing build dependencies")
    IN  IF r.ret # "True" THEN [r EXCEPT !.ret = "False"]
        ELSE [r EXCEPT !.ret = "True"]

check_requirements(w) ==
    LET w1 == [Fresh(w) EXCEPT !.out = Append(@, <<"checking", "">>)]
    IN  IF missing_packages # <<>>
        THEN LET r == run_command(w1, PipInstall \o missing_packages,
                                  "Installing build dependencies")
             IN  IF r.ret # "True" THEN [r EXCEPT !.ret = "False"]
                 ELSE [r EXCEPT !.ret = "True"]
        ELSE [w1 EXCEPT !.ret = "True"]

build_package(w) == run_command(Fresh(w), BuildCmd, "Building package")

check_package(w) == run_command(Fresh(w), CheckCmd, "Checking package")

upload_to_test_pypi(w) ==
    LET w1 == [Fresh(w) EXCEPT !.out = Append(@, <<"prompt", "Test PyPI">>)]
    IN  IF Lower(answer) # YES
        THEN [w1 EXCEPT !.out = Append(@, <<"cancelled", "">>), !.ret = "True"]
        ELSE run_command(w1, UploadTestCmd, "Uploading to Test PyPI")

upload_to_pypi(w) ==
    LET w1 == [Fresh(w) EXCEPT !.out = Append(@, <<"prompt", "PyPI">>)]
    IN  IF Lower(answer) # YES
        THEN [w1 EXCEPT !.out = Append(@, <<"cancelled", "">>), !.ret = "True"]
        ELSE run_command(w1, UploadCmd, "Uploading to PyPI")

\* Python's truth value of what a step function returned: not None is True
Truthy(v) == v = "True"

----------------------------------------------------------------------------
(* main *)

\* the list of line 120, with the empty action let through
BuildActionsLax == {BUILD, TEST_UPLOAD, UPLOAD, <<>>}

\* the actions of line 120
BuildActions == {BUILD, TEST_UPLOAD, UPLOAD}

\* main's list steps: the step functions and their labels
steps ==
    << [func |-> "clean_build", name |-> "Clean build artifacts"],
       [func |-> "check_requirements", name |-> "Check requirements"],
       [func |-> "build_package", name |-> "Build package"],
       [func |-> "check_package", name |-> "Check package"] >>

\* the call step_func() of the i-th entry of steps
StepFunc(i, w) ==
    CASE i = 1 -> clean_build(w)
      [] i = 2 -> check_requirements(w)
      [] i = 3 -> build_package(w)
      [] i = 4 -> check_package(w)

\* the environments tried for a run of the script: any set of importable
\* packages, any answer, and at most one program that exits non-zero
Environments ==
    /\ installed \in SUBSET {"build", "twine"}
    /\ failing \in {{}} \cup { {p} : p \in Programs }
    /\ answer \in Answers

\* python build.py [action]: the process starts
Init ==
    /\ fs \in FileSystems
    /\ Environments
    /\ \/ args = <<>> /\ typed \in TypedStrings
       \/ args \in { <<a>> : a \in ArgStrings } /\ typed = <<>>
    /\ cmds = <<>>
    /\ out = <<>>
    /\ pc = "start"
    /\ action = <<>>
    /\ stepIdx = 1
    /\ ret = "None"
    /\ exc = ""
    /\ exitCode = -1
    /\ ran = <<>>
    /\ hist = <<>>

Env == <<installed, failing, answer, args, typed>>

\* lines 103-104: the action is the lower-cased first argument
MainArgv ==
    /\ pc = "start"
    /\ Len(args) >= 1
    /\ action' = Lower(args[1])
    /\ pc' = "dispatch"
    /\ UNCHANGED <<fs, cmds, out, stepIdx, ret, exc, exitCode, ran, hist, Env>>

\* lines 105-112: no argument, the action is asked for and a line is read from
\* standard input; an empty line is build
MainPrompt ==
    /\ pc = "start"
    /\ Len(args) = 0
    /\ action' = IF Lower(typed) = <<>> THEN BUILD ELSE Lower(typed)
    /\ out' = Append(out, <<"usage", "">>)
    /\ pc' = "dispatch"
    /\ UNCHANGED <<fs, cmds, stepIdx, ret, exc, exitCode, ran, hist, Env>>

\* lines 114-117 without the return: main goes on to line 120, where clean
\* is no build action, and ends at lines 141-143
MainCleanNoReturn ==
    /\ pc = "dispatch"
    /\ action = CLEAN
    /\ LET r == clean_build(World) IN
        /\ fs' = r.fs
        /\ cmds' = r.cmds
        /\ ret' = r.ret
        /\ exc' = r.exc
        /\ ran' = Append(ran, "clean_build")
        /\ out' = IF r.exc # "" THEN r.out
                  ELSE Append(Append(r.out, <<"clean_completed", "">>),
                              <<"unknown_action", "">>)
        /\ exitCode' = 1
    /\ pc' = "exited"
    /\ UNCHANGED <<action, stepIdx, hist, Env>>

\* lines 114-117: clean_build alone; an exception it raises is not caught and
\* ends the process with status 1, otherwise main returns and the status is 0
MainClean ==
    /\ pc = "dispatch"
    /\ action = CLEAN
    /\ LET r == clean_build(World) IN
        /\ fs' = r.fs
        /\ cmds' = r.cmds
        /\ ret' = r.ret
        /\ exc' = r.exc
        /\ ran' = Append(ran, "clean_build")
        /\ out' = IF r.exc # "" THEN r.out
                  ELSE Append(r.out, <<"clean_completed", "">>)
        /\ exitCode' = IF r.exc # "" THEN 1 ELSE 0
    /\ pc' = "exited"
    /\ UNCHANGED <<action, stepIdx, hist, Env>>

\* lines 120-126: a build action enters the loop over steps
MainBuild ==
    /\ pc = "dispatch"
    /\ action # CLEAN
    /\ action \in BuildActions
    /\ stepIdx' = 1
    /\ pc' = "loop"
    /\ UNCHANGED <<fs, cmds, out, action, ret, exc, exitCode, ran, hist, Env>>

\* lines 128-131: one iteration of the loop: the step function is called; an
\* exception ends the process with status 1; a result that is not true
\* reports the step's label and exits with status 1
MainStep ==
    /\ pc = "loop"
    /\ stepIdx \in DOMAIN steps
    /\ LET r == StepFunc(stepIdx, World) IN
        /\ fs' = r.fs
        /\ cmds' = r.cmds
        /\ ret' = r.ret
        /\ exc' = r.exc
        /\ ran' = Append(ran, steps[stepIdx].func)
        /\ IF r.exc # ""
           THEN /\ out' = r.out
                /\ exitCode' = 1
                /\ pc' = "exited"
                /\ UNCHANGED stepIdx
           ELSE IF ~Truthy(r.ret)
           THEN /\ out' = Append(r.out, <<"build_failed_at", steps[stepIdx].name>>)
                /\ exitCode' = 1
                /\ pc' = "exited"
                /\ UNCHANGED stepIdx
           ELSE /\ out' = r.out
                /\ UNCHANGED exitCode
                /\ stepIdx' = stepIdx + 1
                /\ pc' = IF stepIdx = Len(steps) THEN "built" ELSE "loop"
    /\ UNCHANGED <<action, hist, Env>>

\* lines 133-139 and 145: after the loop, the follow-on of the action; what
\* the upload function returns is not looked at
MainFollowOn ==
    /\ pc = "built"
    /\ LET w0 == [World EXCEPT !.out = Append(@, <<"built", "">>)]
           r == IF action = TEST_UPLOAD THEN upload_to_test_pypi(w0)
                ELSE IF action = UPLOAD THEN upload_to_pypi(w0)
                ELSE w0
       IN
        /\ fs' = r.fs
        /\ cmds' = r.cmds
        /\ out' = Append(r.out, <<"process_completed", "">>)
        /\ ran' = IF action = TEST_UPLOAD THEN Append(ran, "upload_to_test_pypi")
                  ELSE IF action = UPLOAD THEN Append(ran, "upload_to_pypi")
                  ELSE ran
    /\ exitCode' = 0
    /\ pc' = "exited"
    /\ UNCHANGED <<action, stepIdx, ret, exc, hist, Env>>

\* lines 141-143: any other action
MainUnknown ==
    /\ pc = "dispatch"
    /\ action # CLEAN
    /\ action \notin BuildActions
    /\ out' = Append(out, <<"unknown_action", "">>)
    /\ exitCode' = 1
    /\ pc' = "exited"
    /\ UNCHANGED <<fs, cmds, action, stepIdx, ret, exc, ran, hist, Env>>

\* MainFollowOn is no disjunct: NoFollowOn below shows that no run enables it
Next ==
    \/ MainArgv
    \/ MainPrompt
    \/ MainClean
    \/ MainBuild
    \/ MainStep
    \/ MainUnknown

Spec == Init /\ [][Next]_vars

\* clean_build returns None, which is not true: the loop of main never gets
\* past its first step, so the code after the loop (the "Package built
\* successfully" message, the upload prompts and commands of C3 and C4, the
\* "Build process completed" message) is never run
NoFollowOn == pc # "built" /\ stepIdx = 1 /\ ~ENABLED MainFollowOn

----------------------------------------------------------------------------
(* The functions called directly, as a caller that imports the module      *)
(* calls them.  Each call is recorded in hist: the function, what it       *)
(* returned or raised, the commands it ran, what it printed, and the       *)
(* working directory before and after it.                                  *)

Called(fn, r) ==
    /\ pc = "imported"
    /\ Len(hist) < MaxCalls
    /\ fs' = r.fs
    /\ cmds' = r.cmds
    /\ out' = r.out
    /\ hist' = Append(hist, [fn |-> fn, ret |-> r.ret, exc |-> r.exc,
                             cmds |-> SubSeq(r.cmds, Len(cmds) + 1, Len(r.cmds)),
                             out |-> SubSeq(r.out, Len(out) + 1, Len(r.out)),
                             before |-> fs, after |-> r.fs])
    /\ UNCHANGED <<pc, action, stepIdx, ret, exc, exitCode, ran, Env>>

CallCleanBuild == Called("clean_build", clean_build(World))
CallCheckRequirements == Called("check_requirements", check_requirements(World))
CallBuildPackage == Called("build_package", build_package(World))
CallCheckPackage == Called("check_package", check_package(World))
CallUploadToTestPyPI == Called("upload_to_test_pypi", upload_to_test_pypi(World))
CallUploadToPyPI == Called("upload_to_pypi", upload_to_pypi(World))

Imported ==
    /\ args = <<>>
    /\ typed = <<>>
    /\ cmds = <<>>
    /\ out = <<>>
    /\ pc = "imported"
    /\ action = <<>>
    /\ stepIdx = 1
    /\ ret = "None"
    /\ exc = ""
    /\ exitCode = -1
    /\ ran = <<>>
    /\ hist = <<>>

\* clean_build called in any working directory; it reads no environment
InitClean ==
    /\ fs \in FileSystems
    /\ installed = {"build", "twine"}
    /\ failing = {}
    /\ answer = <<>>
    /\ Imported

NextClean == CallCleanBuild

SpecClean == InitClean /\ [][NextClean]_vars

\* the functions that run commands, called in any environment; they do not
\* read the working directory
InitFn ==
    /\ fs = [n \in Names |-> IF n = "src" THEN "dir" ELSE "absent"]
    /\ installed \in SUBSET {"build", "twine"}
    /\ failing \in SUBSET Programs
    /\ answer \in Answers
    /\ Imported

NextFn ==
    \/ CallCheckRequirements
    \/ CallBuildPackage
    \/ CallCheckPackage
    \/ CallUploadToTestPyPI
    \/ CallUploadToPyPI

SpecFn == InitFn /\ [][NextFn]_vars

----------------------------------------------------------------------------
(* Vocabulary of the properties *)

Exited == pc = "exited"

Count(seq, x) == Cardinality({i \in DOMAIN seq : seq[i] = x})

Printed(kind) == \E i \in DOMAIN out : out[i][1] = kind

\* the labels printed in a "Build failed at step" message
ReportedLabels == { out[i][2] : i \in {j \in DOMAIN out : out[j][1] = "build_failed_at"} }

\* the mode string of the run, as given: the argument, or the line typed at the
\* prompt, where an empty line stands for build
ModeString ==
    IF Len(args) >= 1 THEN args[1] ELSE IF typed = <<>> THEN BUILD ELSE typed

Mode == Lower(ModeString)

CoreSteps == <<"clean_build", "check_requirements", "build_package", "check_package">>

CoreLabels == <<"Clean build artifacts", "Check requirements", "Build package",
                "Check package">>

UploadSteps == {"upload_to_test_pypi", "upload_to_pypi"}

ToolsPresent == {"build", "twine"} \subseteq installed

\* the cleanup of this run raised an error
CleanupRaised == ran # <<>> /\ ran[Len(ran)] = "clean_build" /\ exc # ""

\* the work of the k-th core step failed in this run
WorkFailed(k) ==
    CASE k = 1 -> CleanupRaised
      [] k = 2 -> Count(ran, CoreSteps[2]) > 0 /\ ~ToolsPresent /\ PipInstall \in failing
      [] k = 3 -> Count(ran, CoreSteps[3]) > 0 /\ BuildCmd \in failing
      [] k = 4 -> Count(ran, CoreSteps[4]) > 0 /\ CheckCmd \in failing

\* the work of every core step succeeds in this run's environment
CoreWorkSucceeds ==
    /\ ~CleanupRaised
    /\ ToolsPresent \/ PipInstall \notin failing
    /\ BuildCmd \notin failing
    /\ CheckCmd \notin failing

Confirms == Lower(answer) = YES

UploadCmdOf(m) == IF m = TEST_UPLOAD THEN UploadTestCmd ELSE UploadCmd
OtherUploadCmdOf(m) == IF m = TEST_UPLOAD THEN UploadCmd ELSE UploadTestCmd

----------------------------------------------------------------------------
(* C1: in the modes build, test-upload and upload, when the work of every   *)
(* core step succeeds, a finished run has executed the four core steps      *)
(* once each, in the order cleanup, dependency check, package build,        *)
(* package verification, has reached "Package built successfully", and has  *)
(* reported no failing step; a cleanup that completed without error is not  *)
(* reported as the failing step.                                            *)
C1_CoreStepsInOrder ==
    (Exited /\ Mode \in {BUILD, TEST_UPLOAD, UPLOAD} /\ CoreWorkSucceeds) =>
        /\ Len(ran) >= 4
        /\ \A k \in 1..4 : ran[k] = CoreSteps[k] /\ Count(ran, CoreSteps[k]) = 1
        /\ Printed("built")
        /\ ReportedLabels = {}

(* C2: in the modes build, test-upload and upload, when the work of core    *)
(* step k fails, no later core step and no upload step is executed, the     *)
(* label reported is that of step k and the exit code is 1; and a label is  *)
(* reported only for a step whose work failed.                              *)
C2_FailFast ==
    (Exited /\ Mode \in {BUILD, TEST_UPLOAD, UPLOAD}) =>
        /\ \A k \in 1..4 :
              WorkFailed(k) =>
                  /\ ran = SubSeq(CoreSteps, 1, k)
                  /\ ReportedLabels = {CoreLabels[k]}
                  /\ exitCode = 1
        /\ \A l \in ReportedLabels :
              \E k \in 1..4 : CoreLabels[k] = l /\ WorkFailed(k)

(* C5: in mode test-upload or upload, when the work of all four core steps  *)
(* succeeds and the user confirms, a finished run has invoked the upload    *)
(* command of the mode exactly once and the other upload command not at     *)
(* all.                                                                     *)
C5_UploadOnce ==
    (Exited /\ Mode \in {TEST_UPLOAD, UPLOAD} /\ CoreWorkSucceeds /\ Confirms) =>
        /\ Count(cmds, UploadCmdOf(Mode)) = 1
        /\ Count(cmds, OtherUploadCmdOf(Mode)) = 0

(* C6: in mode test-upload or upload, when the work of the core steps       *)
(* succeeds and the user's answer to the confirmation is not y or Y, a      *)
(* finished run has invoked no upload command, has reported the upload as   *)
(* cancelled and no step as failed, and has exit code 0.                    *)
C6_DeclineIsSuccess ==
    (Exited /\ Mode \in {TEST_UPLOAD, UPLOAD} /\ CoreWorkSucceeds /\ ~Confirms) =>
        /\ Count(cmds, UploadTestCmd) = 0
        /\ Count(cmds, UploadCmd) = 0
        /\ Printed("cancelled")
        /\ ReportedLabels = {}
        /\ exitCode = 0

(* C7: for a mode string that, lower-cased, is none of build, test-upload,  *)
(* upload, clean, the run executes no pipeline step (no cleanup, no         *)
(* dependency check, no command, no upload prompt), does not stop before    *)
(* it exits, and exits with code 1.                                         *)
C7_UnknownMode ==
    (Mode \notin {BUILD, TEST_UPLOAD, UPLOAD, CLEAN}) =>
        /\ ran = <<>>
        /\ cmds = <<>>
        /\ fs \in FileSystems
        /\ ~Printed("cleaning") /\ ~Printed("checking") /\ ~Printed("prompt")
        /\ Exited \/ ENABLED Next
        /\ Exited => exitCode = 1 /\ Printed("unknown_action")

\* the empty string given as the argument: the run has ended
C7_Witness ==
    Exited /\ args = << <<>> >> /\ exitCode = 1 /\ Printed("unknown_action")

(* C8, as claimed: in mode clean, a finished run has executed the cleanup   *)
(* only, no command and no prompt, and has exit code 0.                     *)
C8_CleanOnlyExitsZero ==
    (Exited /\ Mode = CLEAN) =>
        /\ ran = <<"clean_build">>
        /\ cmds = <<>>
        /\ ~Printed("checking") /\ ~Printed("prompt")
        /\ exitCode = 0

(* C8, amended: in mode clean, a finished run has executed the cleanup      *)
(* only, no command and no prompt; its exit code is 0 when the cleanup      *)
(* raised no error, and 1 when it raised one.                               *)
C8_CleanOnly ==
    (Exited /\ Mode = CLEAN) =>
        /\ ran = <<"clean_build">>
        /\ cmds = <<>>
        /\ ~Printed("checking") /\ ~Printed("prompt") /\ ~Printed("unknown_action")
        /\ ReportedLabels = {}
        /\ exc = "" => exitCode = 0 /\ Printed("clean_completed")
        /\ exc # "" => exitCode = 1

\* a clean run that removed a directory and ended with exit code 0
C8_Witness ==
    /\ Exited /\ Mode = CLEAN /\ exitCode = 0
    /\ Printed("removed_dir")
    /\ ran = <<"clean_build">>

----------------------------------------------------------------------------
(* Properties of the functions called directly *)

\* the positions of the installer's command lines among the commands of a call
PipCalls(h) == { j \in DOMAIN h.cmds : Program(h.cmds[j]) = PipInstall }

\* the packages a pip command line names
PackagesOf(cmd) == { cmd[k] : k \in (Len(PipInstall) + 1)..Len(cmd) }

(* C9: the dependency check invokes the installer if and only if one of    *)
(* build and twine is not importable, at most once, naming exactly the     *)
(* missing tools, and runs no other command; with both installed it        *)
(* succeeds without invoking the installer; when the installer exits       *)
(* non-zero it fails, and it has not invoked the packaging command.        *)
C9_DependencyCheck ==
    \A i \in DOMAIN hist :
        hist[i].fn = "check_requirements" =>
            LET h == hist[i] IN
            /\ h.exc = ""
            /\ (PipCalls(h) # {}) <=> ~ToolsPresent
            /\ Cardinality(PipCalls(h)) <= 1
            /\ Len(h.cmds) = Cardinality(PipCalls(h))
            /\ \A j \in PipCalls(h) :
                  /\ PackagesOf(h.cmds[j]) = {"build", "twine"} \ installed
                  /\ Len(h.cmds[j]) = Len(PipInstall) + Cardinality({"build", "twine"} \ installed)
            /\ ToolsPresent => h.ret = "True" /\ h.cmds = <<>>
            /\ (~ToolsPresent /\ PipInstall \in failing) => h.ret = "False"
            /\ Count(h.cmds, BuildCmd) = 0

\* a dependency check that found twine missing, ran the installer for twine
\* alone, and failed because the installer exited non-zero
C9_Witness ==
    \E i \in DOMAIN hist :
        /\ hist[i].fn = "check_requirements"
        /\ installed = {"build"}
        /\ PipInstall \in failing
        /\ hist[i].cmds = << PipInstall \o <<"twine">> >>
        /\ hist[i].ret = "False"

\* the names clean_build's patterns match
ArtifactNames == {"build", "dist"} \cup EggInfoNames

\* the call removed something
RemovedSomething(h) ==
    \E j \in DOMAIN h.out : h.out[j][1] \in {"removed_dir", "removed_file"}

\* a second clean_build right after one that completed removes nothing, raises
\* nothing and leaves the working directory as it was; on a directory with no
\* artifact clean_build raises nothing
CleanIdempotent ==
    /\ \A i \in DOMAIN hist :
          (i > 1 /\ hist[i - 1].exc = "") =>
              /\ hist[i].exc = ""
              /\ ~RemovedSomething(hist[i])
              /\ hist[i].after = hist[i].before
    /\ \A i \in DOMAIN hist :
          (\A n \in ArtifactNames : hist[i].before[n] = "absent") =>
              /\ hist[i].exc = ""
              /\ hist[i].after = hist[i].before

(* C10, as claimed: after a clean_build that completed, no path matching    *)
(* build, dist or *.egg-info remains, and a second clean_build right after  *)
(* it removes nothing, raises nothing and leaves the directory unchanged;   *)
(* cleaning a clean directory is no error.                                  *)
C10_NothingRemains ==
    /\ \A i \in DOMAIN hist :
          hist[i].exc = "" =>
              \A n \in ArtifactNames : hist[i].after[n] = "absent"
    /\ CleanIdempotent

(* C10, amended: after a clean_build that completed, no directory and no    *)
(* regular file matching build, dist or *.egg-info remains (a matching      *)
(* entry that is neither is left in place) and no other entry was touched;  *)
(* a second clean_build right after it removes nothing, raises nothing and  *)
(* leaves the directory unchanged; cleaning a clean directory is no error.  *)
C10_CleanIdempotent ==
    /\ \A i \in DOMAIN hist :
          hist[i].exc = "" =>
              /\ hist[i].ret = "None"
              /\ \A n \in ArtifactNames :
                    hist[i].after[n] = IF hist[i].before[n] = "fifo" THEN "fifo"
                                       ELSE "absent"
              /\ \A n \in Names \ ArtifactNames :
                    hist[i].after[n] = hist[i].before[n]
    /\ CleanIdempotent

\* two clean_build calls in a row that both completed, the first of which
\* removed a directory and a regular file and left a fifo in place
C10_Witness ==
    /\ Len(hist) = 2
    /\ hist[1].exc = "" /\ hist[2].exc = ""
    /\ \E a, b, c \in ArtifactNames :
          /\ hist[1].before[a] = "dir" /\ hist[1].after[a] = "absent"
          /\ hist[1].before[b] = "file" /\ hist[1].after[b] = "absent"
          /\ hist[1].before[c] = "fifo" /\ hist[2].after[c] = "fifo"
    /\ ~RemovedSomething(hist[2])

====
